---- MODULE Spec2Model ----
(***************************************************************************)
(* Model of src/server.js: an express application (GET /, GET              *)
(* /api/speedtest, GET /api/health) started under node's cluster module.   *)
(* The primary process forks one worker per CPU and re-forks on every      *)
(* worker exit; each worker listens on PORT and answers requests.          *)
(*                                                                         *)
(* Numbers are exact rationals [n, scale] (value n/scale); Math.random()   *)
(* is k/RandRes for 0 <= k < RandRes.                                      *)
(***************************************************************************)
EXTENDS Integers, Sequences, FiniteSets, TLC

VARIABLES cpuCount, pc, i, wstate, forkedBy, listenedBy, exitQueue, handled,
          deaths, reqs, resp

vars == <<cpuCount, pc, i, wstate, forkedBy, listenedBy, exitQueue, handled,
          deaths, reqs, resp>>

clusterVars == <<cpuCount, pc, i, wstate, forkedBy, listenedBy, exitQueue,
                 handled, deaths>>

-----------------------------------------------------------------------------
(* Bounds of the model *)

MaxCpus == 2        \* os.cpus().length ranges over 1..MaxCpus
MaxDeaths == 2      \* worker exits in one behaviour
MaxRequests == 2    \* HTTP requests in one behaviour
RandRes == 2000     \* Math.random() returns k/RandRes

\* Samples of the operating system's answers: os.loadavg()[0] in hundredths,
\* <<os.freemem(), os.totalmem()>>, and the seconds since the process started.
LoadAvgs == {52}
MemSamples == {<<1, 3>>}
Clock == {1, 2}

Primary == 0
MaxPid == MaxCpus + MaxDeaths
Pids == 1..MaxPid

Paths == {"/", "/api/speedtest", "/api/health", "/health"}

\* Samples of Math.random() used by the request handler in Spec.
Rands == {RandRes \div 4, RandRes - 1}

\* Samples of Math.random() used by StatsSpec: a coarse grid plus both edges.
StatRands == {k \in 0..(RandRes - 1) :
                \/ k % (RandRes \div 8) = 0
                \/ k < 2
                \/ k >= RandRes - 2}

-----------------------------------------------------------------------------
(* JavaScript values *)

RECURSIVE Pow10(_)
Pow10(d) == IF d = 0 THEN 1 ELSE 10 * Pow10(d - 1)

\* Number.prototype.toFixed(digits) of numer/denom >= 0: the decimal string
\* with `digits` fraction digits nearest to the value, the larger on a tie.
toFixed(numer, denom, digits) ==
  [type |-> "string",
   n |-> (2 * numer * Pow10(digits) + denom) \div (2 * denom),
   scale |-> Pow10(digits)]

\* Unary plus: the number a numeric string denotes.
ToNumber(s) == [type |-> "number", n |-> s.n, scale |-> s.scale]

\* String concatenation with a suffix keeps the digits and stays a string.
Concat(s, suffix) == [type |-> "string", n |-> s.n, scale |-> s.scale,
                      suffix |-> suffix]

\* Variant: a Date is written as it is, not converted.
toJSON_Raw(v) == v

\* JSON.stringify of a Date: Date.prototype.toJSON gives toISOString().
\* Every other value used here is serialised as itself.
toJSON(v) ==
  IF v.type = "Date"
    THEN [type |-> "string", format |-> "ISO-8601", ms |-> v.ms]
    ELSE v

IsInteger(v) == v.type = "number" /\ v.n % v.scale = 0

-----------------------------------------------------------------------------
(* Utility functions *)

getSystemLoad(cpus, load, mem) ==
  [cpuCount |-> cpus,
   avgLoad |-> [type |-> "number", n |-> load, scale |-> 100],
   freeMem |-> toFixed(mem[1] * 100, mem[2], 2)]

\* Variant: the ping range is not reduced by its minimum.
generateSpeedStats_NoMin(r1, r2, r3, r4) ==
  [ping     |-> ToNumber(toFixed(r1 * 40 + 8 * RandRes, RandRes, 1)),
   download |-> ToNumber(toFixed(r2 * (120 - 30) + 30 * RandRes, RandRes, 1)),
   upload   |-> ToNumber(toFixed(r3 * (60 - 10) + 10 * RandRes, RandRes, 1)),
   accuracy |-> ToNumber(toFixed(r4 * (999 - 970) + 970 * RandRes,
                                 10 * RandRes, 2))]

generateSpeedStats(r1, r2, r3, r4) ==
  [ping     |-> ToNumber(toFixed(r1 * (40 - 8) + 8 * RandRes, RandRes, 1)),
   download |-> ToNumber(toFixed(r2 * (120 - 30) + 30 * RandRes, RandRes, 1)),
   upload   |-> ToNumber(toFixed(r3 * (60 - 10) + 10 * RandRes, RandRes, 1)),
   accuracy |-> ToNumber(toFixed(r4 * (999 - 970) + 970 * RandRes,
                                 10 * RandRes, 2))]

-----------------------------------------------------------------------------
(* API routes *)

Str(s) == [type |-> "string", s |-> s]
Obj(fields) == [type |-> "object", fields |-> fields]
Num(n) == [type |-> "number", n |-> n, scale |-> 1]
Date(t) == [type |-> "Date", ms |-> 1000 * t]

\* res.json(obj): status 200, the body is JSON.stringify(obj).
resJson(path, obj) ==
  [path |-> path, code |-> 200, type |-> "json",
   body |-> [f \in DOMAIN obj |-> toJSON(obj[f])]]

\* res.send(text)
resSend(path, text) ==
  [path |-> path, code |-> 200, type |-> "html", body |-> [text |-> text]]

\* Variant: GET / answers JSON with a status field.
RootRoute_Json(path) == resJson(path, [status |-> Str("success")])

\* app.get("/")
RootRoute(path) == resSend(path, "Velocity Backend Active - Ready for Speed Test")

\* Variant: a request is refused while another /api/speedtest request is
\* pending.
SpeedtestStatus_Capped ==
  IF Cardinality({k \in DOMAIN reqs :
                    reqs[k].path = "/api/speedtest" /\ reqs[k].st = "pending"}) > 1
    THEN "failed"
    ELSE "success"

\* The status the speed test handler reports.
SpeedtestStatus == "success"

\* app.get("/api/speedtest")
SpeedtestRoute(path, cpus, load, mem, t, r1, r2, r3, r4) ==
  LET serverLoad == getSystemLoad(cpus, load, mem)
      stats == generateSpeedStats(r1, r2, r3, r4)
  IN resJson(path,
       [status    |-> Str(SpeedtestStatus),
        timestamp |-> Date(t),
        server    |-> Obj([name |-> Str("hostname"),
                           region |-> Str("primary"),
                           load |-> serverLoad.avgLoad,
                           cpuCount |-> serverLoad.cpuCount,
                           memoryFree |-> Concat(serverLoad.freeMem, "%")]),
        data      |-> Obj(stats)])

\* Variant: the health answer without the uptime.
HealthRoute_NoUptime(path, cpus, load, mem, t) ==
  resJson(path,
    [status |-> Str("OK"),
     load   |-> Obj(getSystemLoad(cpus, load, mem))])

\* app.get("/api/health")
HealthRoute(path, cpus, load, mem, t) ==
  resJson(path,
    [status |-> Str("OK"),
     uptime |-> Num(t),
     load   |-> Obj(getSystemLoad(cpus, load, mem))])

\* No route matches: express answers 404 with an HTML error page.
NotFound(path) ==
  [path |-> path, code |-> 404, type |-> "html",
   body |-> [text |-> "Cannot GET"]]

\* The paths the express router has a route for.
Routed == {"/", "/api/speedtest", "/api/health"}

\* The status field of a response, "" when it has none.
StatusOf(r) ==
  IF r.type = "json" /\ "status" \in DOMAIN r.body THEN r.body.status.s ELSE ""

NoResponse == [path |-> "", code |-> 0, type |-> "none", body |-> [text |-> ""]]

-----------------------------------------------------------------------------
(* Cluster: the primary process *)

\* Variant: every process takes itself for the primary.
isPrimary_Always(p) == TRUE

isPrimary(p) == p = Primary

\* The branch of the top-level `if (cluster.isPrimary)` process p takes.
Branch(p) == IF isPrimary(p) THEN "fork" ELSE "listen"

Forked == {w \in Pids : wstate[w] # "none"}
Live == {w \in Pids : wstate[w] \in {"starting", "listening"}}
forks == Cardinality(Forked)

\* cluster.fork() called by process p: a new worker process starts.
Fork(p) ==
  /\ forks < MaxPid
  /\ wstate' = [wstate EXCEPT ![forks + 1] = "starting"]
  /\ forkedBy' = forkedBy \cup {p}

\* Variant: the loop runs once more.
LoopCond_OffByOne == i <= cpuCount

\* The condition of the startup loop.
LoopCond == i < cpuCount

\* One iteration of the startup loop: for (i < cpuCount) cluster.fork()
StartupFork ==
  /\ pc = "loop"
  /\ Branch(Primary) = "fork"
  /\ LoopCond
  /\ Fork(Primary)
  /\ i' = i + 1
  /\ UNCHANGED <<cpuCount, pc, listenedBy, exitQueue, handled, deaths, reqs,
                 resp>>

\* The loop ends and cluster.on("exit", ...) registers the handler; the
\* script returns to the event loop.
RegisterExitHandler ==
  /\ pc = "loop"
  /\ Branch(Primary) = "fork"
  /\ ~LoopCond
  /\ pc' = "idle"
  /\ UNCHANGED <<cpuCount, i, wstate, forkedBy, listenedBy, exitQueue,
                 handled, deaths, reqs, resp>>

\* Variant: the handler logs and does not fork.
OnExit_NoFork(worker) == UNCHANGED <<wstate, forkedBy>>

\* Variant: the handler forks two workers.
OnExit_ForkTwice(worker) ==
  /\ forks + 1 < MaxPid
  /\ wstate' = [wstate EXCEPT ![forks + 1] = "starting",
                              ![forks + 2] = "starting"]
  /\ forkedBy' = forkedBy \cup {Primary}

\* The body of the "exit" handler.
OnExit(worker) == Fork(Primary)

\* The event loop of the primary delivers the oldest pending "exit" event.
\* Events are delivered only once the top-level script has returned.
HandleExit ==
  /\ pc = "idle"
  /\ exitQueue # <<>>
  /\ OnExit(Head(exitQueue))
  /\ exitQueue' = Tail(exitQueue)
  /\ handled' = handled + 1
  /\ UNCHANGED <<cpuCount, pc, i, listenedBy, deaths, reqs, resp>>

-----------------------------------------------------------------------------
(* Cluster: the workers *)

\* A forked worker runs the script: createServer(app).listen(PORT).
WorkerScript(w) ==
  /\ wstate[w] = "starting"
  /\ IF Branch(w) = "listen"
       THEN /\ wstate' = [wstate EXCEPT ![w] = "listening"]
            /\ listenedBy' = listenedBy \cup {w}
            /\ UNCHANGED forkedBy
       ELSE /\ Fork(w)
            /\ UNCHANGED listenedBy
  /\ UNCHANGED <<cpuCount, pc, i, exitQueue, handled, deaths, reqs, resp>>

\* A worker process dies (crash, kill or clean exit); the primary's cluster
\* module queues an "exit" event.
WorkerExit(w) ==
  /\ w \in Live
  /\ deaths < MaxDeaths
  /\ wstate' = [wstate EXCEPT ![w] = "exited"]
  /\ exitQueue' = Append(exitQueue, w)
  /\ deaths' = deaths + 1
  /\ UNCHANGED <<cpuCount, pc, i, forkedBy, listenedBy, handled, reqs, resp>>

-----------------------------------------------------------------------------
(* HTTP requests *)

\* A request as it arrives: not yet answered. `peers` records how many
\* /api/speedtest requests were pending at that moment.
NewRequest(path) ==
  [st |-> "pending", path |-> path, status |-> "",
   peers |-> Cardinality({k \in DOMAIN reqs :
                            /\ reqs[k].st = "pending"
                            /\ reqs[k].path = "/api/speedtest"})]

\* A client sends GET path; a listening server accepts the connection.
Arrive(path) ==
  /\ \E w \in Pids : wstate[w] = "listening"
  /\ Len(reqs) < MaxRequests
  /\ reqs' = Append(reqs, NewRequest(path))
  /\ UNCHANGED <<clusterVars, resp>>

\* Variant: the request is left pending after its response.
Answered_StaysPending(q, r) == q

\* The request after its handler has sent response r.
Answered(q, r) == [q EXCEPT !.st = "answered", !.status = StatusOf(r)]

\* The express router runs the handler registered for the path; each
\* handler reads the operating system and Math.random() as its code does.
Dispatch(path) ==
  \/ /\ path = "/"
     /\ resp' = RootRoute(path)
  \/ /\ path = "/api/speedtest"
     /\ \E load \in LoadAvgs, mem \in MemSamples, t \in Clock,
           r1 \in Rands, r2 \in Rands, r3 \in Rands, r4 \in Rands :
          resp' = SpeedtestRoute(path, cpuCount, load, mem, t, r1, r2, r3, r4)
  \/ /\ path = "/api/health"
     /\ \E load \in LoadAvgs, mem \in MemSamples, t \in Clock :
          resp' = HealthRoute(path, cpuCount, load, mem, t)
  \/ /\ path \notin Routed
     /\ resp' = NotFound(path)

\* A listening worker runs the route handler of pending request k to
\* completion and sends the response.
Handle(w, k) ==
  /\ wstate[w] = "listening"
  /\ k \in DOMAIN reqs
  /\ reqs[k].st = "pending"
  /\ Dispatch(reqs[k].path)
  /\ reqs' = [reqs EXCEPT ![k] = Answered(reqs[k], resp')]
  /\ UNCHANGED clusterVars

\* One call of generateSpeedStats() on its own.
StatsCall ==
  /\ resp = NoResponse
  /\ \E r1 \in StatRands, r2 \in StatRands, r3 \in StatRands,
        r4 \in StatRands :
       resp' = [path |-> "", code |-> 0, type |-> "stats",
                body |-> generateSpeedStats(r1, r2, r3, r4)]
  /\ UNCHANGED <<clusterVars, reqs>>

-----------------------------------------------------------------------------
(* Specifications *)

Init ==
  /\ cpuCount \in 1..MaxCpus
  /\ pc = "loop"
  /\ i = 0
  /\ wstate = [w \in Pids |-> "none"]
  /\ forkedBy = {}
  /\ listenedBy = {}
  /\ exitQueue = <<>>
  /\ handled = 0
  /\ deaths = 0
  /\ reqs = <<>>
  /\ resp = NoResponse

\* The shape of the state.
\*   cpuCount             os.cpus().length
\*   pc, i                the primary's position in its script, the loop index
\*   wstate               each worker process: none, starting, listening, exited
\*   forkedBy, listenedBy the processes that called cluster.fork(), listen()
\*   exitQueue            "exit" events not yet delivered to the primary
\*   handled, deaths      runs of the "exit" handler, worker exits
\*   reqs, resp           the requests received, the response last sent
TypeOK ==
  /\ cpuCount \in 1..MaxCpus
  /\ pc \in {"loop", "idle"}
  /\ i \in 0..cpuCount
  /\ wstate \in [Pids -> {"none", "starting", "listening", "exited"}]
  /\ forkedBy \subseteq {Primary} \cup Pids
  /\ listenedBy \subseteq {Primary} \cup Pids
  /\ exitQueue \in Seq(Pids)
  /\ handled \in 0..MaxDeaths
  /\ deaths \in 0..MaxDeaths
  /\ Len(reqs) <= MaxRequests
  /\ \A k \in DOMAIN reqs :
       /\ reqs[k].st \in {"pending", "answered"}
       /\ reqs[k].path \in Paths
  /\ resp.type \in {"none", "json", "html", "stats"}

ClusterNext ==
  \/ StartupFork
  \/ RegisterExitHandler
  \/ HandleExit
  \/ \E w \in Pids : WorkerScript(w)
  \/ \E w \in Pids : WorkerExit(w)

Next ==
  \/ ClusterNext
  \/ \E path \in Paths : Arrive(path)
  \/ \E w \in Pids, k \in 1..MaxRequests : Handle(w, k)

Spec == Init /\ [][Next]_vars

\* Requests against a cluster that has started and loses no worker.
HttpNext ==
  \/ StartupFork
  \/ RegisterExitHandler
  \/ \E w \in Pids : WorkerScript(w)
  \/ \E path \in Paths : Arrive(path)
  \/ \E w \in Pids, k \in 1..MaxRequests : Handle(w, k)

HttpSpec == Init /\ [][HttpNext]_vars

\* generateSpeedStats() as a pure function of its four random draws.
StatsSpec == Init /\ [][StatsCall]_vars

\* The cluster alone, with the scheduling node guarantees: the primary's
\* script runs to completion, pending events are delivered, and a forked
\* worker runs its script.
FairSpec ==
  /\ Init
  /\ [][ClusterNext]_vars
  /\ WF_vars(StartupFork)
  /\ WF_vars(RegisterExitHandler)
  /\ WF_vars(HandleExit)
  /\ \A w \in Pids : WF_vars(WorkerScript(w))

-----------------------------------------------------------------------------
(* Properties *)

nLive == Cardinality(Live)

\* C1: every "exit" event the primary handles forks exactly one replacement
\* worker, a fork after startup happens only in answer to an exit, and once
\* the (finite) sequence of deaths is over every exit has been handled and
\* the number of live workers is back at cpuCount for good.
C1_RestartOnExit ==
  /\ [][/\ handled' # handled =>
             (handled' = handled + 1 /\ forks' = forks + 1)
        /\ (pc = "idle" /\ forks' # forks) => handled' = handled + 1]_vars
  /\ <>[](handled = deaths /\ nLive = cpuCount)

C1_Witness ==
  /\ deaths = MaxDeaths
  /\ handled = deaths
  /\ nLive = cpuCount
  /\ wstate[1] = "exited"

\* C2: when the startup loop has finished, and before any restart, exactly
\* cpuCount forks have been made, one per iteration.
C2_StartupForks ==
  (pc = "idle" /\ handled = 0) => (forks = cpuCount /\ i = cpuCount)

C2_Witness ==
  /\ pc = "idle"
  /\ handled = 0
  /\ cpuCount = MaxCpus
  /\ forks = MaxCpus

\* C3 as stated: every response carries a status field that is one of
\* success, partial, failed.
C3_Original ==
  resp.type \in {"json", "html"} =>
    StatusOf(resp) \in {"success", "partial", "failed"}

\* C3 as amended: a /api/speedtest response has status "success", a
\* /api/health response has status "OK", and the responses to GET / and to
\* an unrouted path have no status field.
C3_StatusByRoute ==
  /\ resp.path = "/api/speedtest" => StatusOf(resp) = "success"
  /\ resp.path = "/api/health" => StatusOf(resp) = "OK"
  /\ (resp.path \in Paths \ {"/api/speedtest", "/api/health"}) =>
       (resp.type = "html" /\ StatusOf(resp) = "")

C3_Witness ==
  /\ resp.path = "/"
  /\ resp.code = 200
  /\ StatusOf(resp) = ""
  /\ \E k \in DOMAIN reqs : reqs[k].status = "OK"

\* C4 as stated: GET /health is answered with process liveness and the
\* occupancy of the session registry.
C4_Original ==
  resp.path = "/health" =>
    /\ resp.code = 200
    /\ resp.type = "json"
    /\ "uptime" \in DOMAIN resp.body
    /\ "occupancy" \in DOMAIN resp.body

\* C4 as amended: the health route is GET /api/health; its answer is
\* exactly {status: "OK", uptime, load: {cpuCount, avgLoad, freeMem}} and
\* holds no registry occupancy; GET /health matches no route and is
\* answered 404.
C4_HealthRoute ==
  /\ resp.path = "/api/health" =>
       /\ resp.code = 200
       /\ resp.type = "json"
       /\ DOMAIN resp.body = {"status", "uptime", "load"}
       /\ resp.body.uptime.type = "number"
       /\ DOMAIN resp.body.load.fields = {"cpuCount", "avgLoad", "freeMem"}
       /\ resp.body.load.fields.cpuCount = cpuCount
  /\ resp.path = "/health" => (resp.code = 404 /\ resp.type = "html")

C4_Witness ==
  /\ resp.path = "/health"
  /\ resp.code = 404
  /\ \E k \in DOMAIN reqs :
       reqs[k].path = "/api/health" /\ reqs[k].st = "answered"

IsSpeedtest(r) == r.path = "/api/speedtest" /\ r.type = "json"

\* C5 as stated: timestamps are ISO-8601 strings and every download and
\* upload value of a response is an integer.
C5_Original ==
  IsSpeedtest(resp) =>
    /\ resp.body.timestamp.type = "string"
    /\ resp.body.timestamp.format = "ISO-8601"
    /\ IsInteger(resp.body.data.fields.download)
    /\ IsInteger(resp.body.data.fields.upload)

\* C5 as amended: the timestamp is an ISO-8601 string; ping, download and
\* upload are numbers with one fraction digit (multiples of 0.1), whole or
\* not.
C5_Formats ==
  IsSpeedtest(resp) =>
    /\ resp.body.timestamp.type = "string"
    /\ resp.body.timestamp.format = "ISO-8601"
    /\ \A f \in {"ping", "download", "upload"} :
         /\ resp.body.data.fields[f].type = "number"
         /\ resp.body.data.fields[f].scale = 10

C5_Witness ==
  /\ IsSpeedtest(resp)
  /\ ~IsInteger(resp.body.data.fields.download)
  /\ IsInteger(resp.body.data.fields.upload)

\* The session phase a request is in: Init until it is answered, then Done.
Phase(q) == IF q.st = "pending" THEN "Init" ELSE "Done"

PhaseOrder == <<"Init", "Latency", "Download", "Upload", "Done">>

RegistryCap == MaxRequests - 1

Successes ==
  {k \in DOMAIN reqs : reqs[k].path = "/api/speedtest" /\ reqs[k].status = "success"}

\* A request made while cap other sessions were open has been answered.
CapPlusOneAnswered ==
  \E k \in DOMAIN reqs :
    /\ reqs[k].path = "/api/speedtest"
    /\ reqs[k].peers >= RegistryCap
    /\ \A j \in 1..k : reqs[j].st = "answered"

C8_Original ==
  /\ nLive <= cpuCount
  /\ forks = cpuCount + handled

\* C8 as amended: in every reachable state at most cpuCount workers are
\* live and the forks made number the startup iterations done plus the
\* exits handled, which is cpuCount plus the exits handled once the startup
\* loop has finished; no exit is handled before that.
C8_ForkCount ==
  /\ nLive <= cpuCount
  /\ forks = i + handled
  /\ nLive = forks - deaths
  /\ pc = "idle" => forks = cpuCount + handled
  /\ pc = "loop" => handled = 0

C8_Witness ==
  /\ pc = "idle"
  /\ handled = MaxDeaths
  /\ forks = cpuCount + MaxDeaths
  /\ nLive = cpuCount

InRange(v, lo, hi, scale) ==
  /\ v.type = "number"
  /\ v.scale = scale
  /\ lo <= v.n
  /\ v.n <= hi

\* C9: every value generateSpeedStats returns is in its closed range at its
\* precision: ping 8.0..40.0, download 30.0..120.0, upload 10.0..60.0 in
\* tenths, accuracy 97.00..99.90 in hundredths.
C9_StatsInRange ==
  resp.type = "stats" =>
    /\ InRange(resp.body.ping, 80, 400, 10)
    /\ InRange(resp.body.download, 300, 1200, 10)
    /\ InRange(resp.body.upload, 100, 600, 10)
    /\ InRange(resp.body.accuracy, 9700, 9990, 100)

C9_Witness ==
  /\ resp.type = "stats"
  /\ resp.body.ping.n = 400
  /\ resp.body.download.n = 1200
  /\ resp.body.upload.n = 100
  /\ resp.body.accuracy.n = 9990

\* C10: only the primary forks and it never listens, only workers listen and
\* they never fork, and a step that answers a request changes nothing of
\* the cluster: no fork, no exit, no change of any process.
C10_RolesAndFrame ==
  /\ [](/\ forkedBy \subseteq {Primary}
        /\ listenedBy \subseteq Pids
        /\ forkedBy \cap listenedBy = {})
  /\ [][(resp' # resp \/ reqs' # reqs) => UNCHANGED clusterVars]_vars

C10_Witness ==
  /\ forkedBy = {Primary}
  /\ listenedBy # {}
  /\ deaths > 0
  /\ \E k \in DOMAIN reqs : reqs[k].st = "answered"
  /\ \E k \in DOMAIN reqs : reqs[k].st = "pending"

====
